---- MODULE Spec2Model ----
(***************************************************************************)
(* Model of the Sparky RAG engine:                                         *)
(*   - the semantic cache (MongoDB "knowledge" collection + FAISS index):  *)
(*     app/models/RAG/web_cache.py, embedding.py, vectorstore.py           *)
(*   - the web search with its cache-first lookup: app/models/web/         *)
(*     websearch.py                                                        *)
(*   - the compiled LangGraph workflow: app/models/RAG/control_flow.py     *)
(*     with its nodes in rag_main_workflow.py                              *)
(*                                                                         *)
(* Texts are abstracted to small identifiers.  A page content is one of    *)
(* Contents; content 0 stands for a text that is empty once cleaned by     *)
(* EmbeddingModel._clean_text (e.g. "***"), content 1 for a text that      *)
(* holds one of the technical keywords of ThoughtProcessNodes.             *)
(***************************************************************************)
EXTENDS Integers, Sequences, FiniteSets, TLC

----------------------------------------------------------------------------
(* Bounds of the model *)

MaxContent == 1
MaxBatch == 2
MaxVectors == 3
MaxCalls == 2
MaxRetriesBound == 2

Contents == 0..MaxContent
Questions == {"q_plain", "q_tech"}

(* Program constants *)

\* EmbeddingModel.expected_dim
ExpectedDim == 3072
\* a dimension the embedding provider may answer with instead
OtherDim == 1536
\* k of vectorstore.as_retriever(query=question, k=3)
RetrieverK == 3
\* langgraph's default recursion_limit: graph.astream is called without a
\* config, so a run that has not ended after this many steps is aborted
\* with GraphRecursionError
RecursionLimit == 25

----------------------------------------------------------------------------
(* Generic helpers *)

Min(a, b) == IF a < b THEN a ELSE b

SeqsUpTo(S, n) == UNION {[1..k -> S] : k \in 0..n}

RECURSIVE SelectIdx(_, _, _)
\* the subsequence of s at the positions i for which keep[i] holds
SelectIdx(s, keep, i) ==
    IF i > Len(s) THEN <<>>
    ELSE IF keep[i] THEN <<s[i]>> \o SelectIdx(s, keep, i + 1)
    ELSE SelectIdx(s, keep, i + 1)

Range(s) == {s[i] : i \in 1..Len(s)}

----------------------------------------------------------------------------
(* Texts *)

\* EmbeddingModel._clean_text leaves nothing of the text
CleansToEmpty(c) == c = 0

\* the text holds one of ThoughtProcessNodes.technical_keywords
HasKeyword(c) == c = 1

QuestionHasKeyword(q) == q = "q_tech"

\* hashlib.md5(text.encode()).hexdigest(): equal texts, equal digests
Md5(x) == <<"md5", x>>

----------------------------------------------------------------------------
(* The cache: MongoDB collection `knowledge` and the FAISS document index *)

VARIABLES
    store,        \* knowledge collection, in insertion order
    index,        \* vectorstore.document_index: the rows of the flat index
    index_file,   \* the index persisted at DOCUMENT_INDEX_PATH
    calls,        \* number of cache operations done (bounds the model)
    last,         \* record of the latest cache_web_results call
    faults,       \* some capability (store, embedding provider, disk) has failed
    rejected      \* some call of cache_web_results has returned False

cacheVars == <<store, index, index_file>>
callVars == <<calls, last, faults, rejected>>

\* the run of the workflow graph (control_flow.py)
VARIABLES
    node,         \* the node the run executes next, or how the run has ended
    state,        \* the graph state (the channels of NewsState)
    input,        \* what the caller passed to graph.astream
    trace,        \* the nodes the run has executed, in order
    router_out,   \* what the router's classification call did in this run
    grade_info,   \* what the latest grade_documents found
    generate_calls,  \* calls of the generation capability made by generate in this run
    tweet_calls   \* calls of twitter.post_tweet made in this run

wfVars == <<node, state, input, trace, router_out, grade_info, generate_calls, tweet_calls>>

\* requests running cache_web_results concurrently on the event loop
VARIABLES
    procs,        \* per request: where its cache_web_results coroutine stands
    write_log,    \* the requests, in the order of their writes to store and index
    read          \* what a cache read by a further request has observed

concVars == <<procs, write_log, read>>

\* the grading of a generation, apart from the graph
VARIABLES
    grading       \* record of the latest call of a grading node

gradeVars == <<grading>>

\* the chat endpoint and its conversation buffer
VARIABLES
    conversation_buffer,  \* the global ConversationBuffer: messages, message_count, summary
    chat,                 \* per chat request: where chat_with_llm stands
    chat_log              \* what the requests have added and handed to the summarizer

chatVars == <<conversation_buffer, chat, chat_log>>

\* the tool-calling agent
VARIABLES
    tool_graph    \* the tool graph: whether it was built, and the run of its nodes

toolVars == <<tool_graph>>

\* knowledge.find_one({"content_hash": h})
FindByHash(st, h) == {i \in 1..Len(st) : st[i].content_hash = h}

\* knowledge.find({"metadata.query_hash": h}).to_list()
FindByQueryHash(st, h) == SelectIdx(st, [i \in 1..Len(st) |-> st[i].query_hash = h], 1)

\* doc_data of cache_web_results
DocData(c, q, embedding_index) ==
    [page_content |-> c,
     content_hash |-> Md5(c),
     embedding_index |-> embedding_index,
     query_hash |-> Md5(q)]

RECURSIVE CacheLoop(_, _, _, _, _, _, _)
\* the for loop of cache_web_results over `documents`; outs[i] is what the
\* store does for document i: "ok", "find_error" (find_one raises) or
\* "insert_error" (insert_one raises); either error is caught and the loop
\* continues
CacheLoop(docs, outs, q, i, st, docs_to_embed, current_index) ==
    IF i > Len(docs) THEN [store |-> st, docs_to_embed |-> docs_to_embed]
    ELSE IF outs[i] = "find_error"
         THEN CacheLoop(docs, outs, q, i + 1, st, docs_to_embed, current_index)
    ELSE IF FindByHash(st, Md5(docs[i])) # {}
         THEN CacheLoop(docs, outs, q, i + 1, st, docs_to_embed, current_index)
    ELSE LET toEmbed == Append(docs_to_embed, docs[i])
             doc_data == DocData(docs[i], q, current_index + Len(toEmbed) - 1)
         IN  IF outs[i] = "insert_error"
             THEN CacheLoop(docs, outs, q, i + 1, st, toEmbed, current_index)
             ELSE CacheLoop(docs, outs, q, i + 1, Append(st, doc_data), toEmbed, current_index)

\* EmbeddingModel.embed_query on a list: the texts are joined into ONE text,
\* which is cleaned and embedded as one vector.  provider is what the
\* embedding provider does: it fails (ok = FALSE), or gives a vector of
\* dimension dim.  The result either raises or is the single vector.
EmbedQueryList(texts, provider) ==
    IF \A i \in 1..Len(texts) : CleansToEmpty(texts[i])
    THEN [raise |-> TRUE, text |-> texts, dim |-> 0]
    ELSE IF ~provider.ok THEN [raise |-> TRUE, text |-> texts, dim |-> 0]
    ELSE IF provider.dim # ExpectedDim THEN [raise |-> TRUE, text |-> texts, dim |-> provider.dim]
    ELSE [raise |-> FALSE, text |-> texts, dim |-> provider.dim]

\* a row of the FAISS index
Vector(emb) == [text |-> emb.text, dim |-> emb.dim]

\* cache_web_results(documents, query) as a function of the cache and of the
\* outcomes of the capabilities it calls
CacheWebResults(c, docs, q, outs, provider, write) ==
    LET current_index == Len(c.index)
        loop == CacheLoop(docs, outs, q, 1, c.store, <<>>, current_index)
        emb == EmbedQueryList(loop.docs_to_embed, provider)
    IN  IF loop.docs_to_embed = <<>>
        THEN [store |-> loop.store, index |-> c.index, index_file |-> c.index_file,
              ret |-> TRUE, embed_failed |-> FALSE]
        ELSE IF emb.raise
        THEN [store |-> loop.store, index |-> c.index, index_file |-> c.index_file,
              ret |-> FALSE, embed_failed |-> TRUE]
        ELSE IF write = "error"
        THEN [store |-> loop.store, index |-> Append(c.index, Vector(emb)),
              index_file |-> c.index_file, ret |-> FALSE, embed_failed |-> FALSE]
        ELSE [store |-> loop.store, index |-> Append(c.index, Vector(emb)),
              index_file |-> Append(c.index, Vector(emb)), ret |-> TRUE,
              embed_failed |-> FALSE]

Cache == [store |-> store, index |-> index, index_file |-> index_file]

StoreOutcomes == {"ok", "find_error", "insert_error"}
ProviderOutcomes ==
    {[ok |-> FALSE, dim |-> 0], [ok |-> TRUE, dim |-> ExpectedDim], [ok |-> TRUE, dim |-> OtherDim]}
WriteOutcomes == {"ok", "error"}

\* the record of the latest cache operation: op is the operation; docs, ret
\* and embed_failed are the argument, the result and the embedding failure
\* of cache_web_results; question, path, returned, search_calls and
\* fetch_calls describe a web search (path is "cached", "searched" or
\* "failed"); fetched_for holds the questions for which a web search on a
\* cache miss has fetched a page and completed; dimension is the dimension
\* of the index a start of the process has set up; results are the candidate
\* pages the search-results call of a web search gave and fetched[i] tells
\* whether the fetch of results[i] succeeded; nearest are the rows of the
\* index a similarity search has ranked, nearest first
NoCall ==
    [op |-> "none", docs |-> <<>>, repeat |-> FALSE, store_writes |-> 0, index_writes |-> 0,
     ret |-> TRUE, embed_failed |-> FALSE, question |-> "q_plain", path |-> "none",
     returned |-> <<>>, search_calls |-> 0, fetch_calls |-> 0, fetched_for |-> {},
     dimension |-> 0, results |-> <<>>, fetched |-> <<>>, nearest |-> <<>>]

\* effect of one call on the cache and on the record of calls
CallDone(docs, r, fault) ==
    /\ store' = r.store
    /\ index' = r.index
    /\ index_file' = r.index_file
    /\ last' = [NoCall EXCEPT !.op = "insert",
                               !.docs = docs,
                               !.repeat = (docs = last.docs),
                               !.store_writes = Len(r.store) - Len(store),
                               !.index_writes = Len(r.index) - Len(index),
                               !.ret = r.ret,
                               !.embed_failed = r.embed_failed,
                               !.fetched_for = last.fetched_for]
    /\ faults' = (faults \/ fault)
    /\ rejected' = (rejected \/ ~r.ret)

ProviderOk == [ok |-> TRUE, dim |-> ExpectedDim]

\* one call of cache_web_results on a non-empty list of documents; the
\* outcome of a capability is chosen only where the call reaches it
CacheInsert ==
    /\ calls < MaxCalls
    /\ Len(index) < MaxVectors
    /\ \E docs \in SeqsUpTo(Contents, MaxBatch) \ {<<>>}, q \in Questions :
         \E outs \in [1..Len(docs) -> StoreOutcomes] :
            LET loop == CacheLoop(docs, outs, q, 1, store, <<>>, Len(index))
                sf == \E i \in 1..Len(docs) : outs[i] # "ok"
            IN  IF loop.docs_to_embed = <<>>
                THEN CallDone(docs, CacheWebResults(Cache, docs, q, outs, ProviderOk, "ok"), sf)
                ELSE \E provider \in ProviderOutcomes :
                       IF EmbedQueryList(loop.docs_to_embed, provider).raise
                       THEN CallDone(docs, CacheWebResults(Cache, docs, q, outs, provider, "ok"),
                                     sf \/ provider # ProviderOk)
                       ELSE \E write \in WriteOutcomes :
                              CallDone(docs, CacheWebResults(Cache, docs, q, outs, provider, write),
                                       sf \/ write # "ok")
    /\ calls' = calls + 1
    /\ UNCHANGED <<wfVars, gradeVars, chatVars, toolVars, concVars>>

----------------------------------------------------------------------------
(* Clearing the cache and starting the process: vectorstore.py *)

\* VectorStore.clear_documents as a function of the cache and of what
\* happens to it: "ok"; "delete_error" (delete_many raises); "interrupted"
\* (the request is cancelled or the process stops once delete_many has run);
\* "save_error" (_save_index raises).  An exception is raised again
ClearDocuments(c, outcome) ==
    IF outcome = "delete_error"
    THEN [store |-> c.store, index |-> c.index, index_file |-> c.index_file, raise |-> TRUE]
    ELSE IF outcome = "interrupted"
    THEN [store |-> <<>>, index |-> c.index, index_file |-> c.index_file, raise |-> TRUE]
    ELSE IF outcome = "save_error"
    THEN [store |-> <<>>, index |-> <<>>, index_file |-> c.index_file, raise |-> TRUE]
    ELSE [store |-> <<>>, index |-> <<>>, index_file |-> <<>>, raise |-> FALSE]

ClearOutcomes == {"ok", "delete_error", "interrupted", "save_error"}

\* one call of clear_documents
ClearCall ==
    /\ calls < MaxCalls
    /\ \E outcome \in ClearOutcomes :
         LET r == ClearDocuments(Cache, outcome)
         IN  /\ store' = r.store
             /\ index' = r.index
             /\ index_file' = r.index_file
             /\ last' = [NoCall EXCEPT !.op = "clear",
                                        !.store_writes = Len(r.store) - Len(store),
                                        !.index_writes = Len(r.index) - Len(index),
                                        !.ret = ~r.raise,
                                        !.fetched_for = last.fetched_for]
             /\ faults' = (faults \/ outcome # "ok")
    /\ calls' = calls + 1
    /\ UNCHANGED <<rejected, wfVars, gradeVars, chatVars, toolVars, concVars>>

\* a new index of the dimension of the other embedding model
FreshIndexOtherDim == [dimension |-> OtherDim, rows |-> <<>>]

\* faiss.IndexFlatL2(dimension) with dimension = embed_model.expected_dim
FreshIndex == [dimension |-> ExpectedDim, rows |-> <<>>]

\* the body of the outer try of VectorStore._initialize_index.  file is the
\* persisted index (no rows when there is no file) and exists whether there
\* is a file; o tells which of makedirs, read_index, os.remove, os.rename
\* and _save_index succeed.  A failure of read_index is handled by removing
\* the file, else renaming it, else leaving it; a failure of _save_index is
\* caught; a failure of makedirs leaves the body
InitializeBody(file, exists, o) ==
    IF ~o.makedirs
    THEN [raise |-> TRUE, path |-> "fallback", index |-> FreshIndex, index_file |-> file]
    ELSE IF exists /\ o.load
    THEN [raise |-> FALSE, path |-> "loaded",
          index |-> [dimension |-> ExpectedDim, rows |-> file], index_file |-> file]
    ELSE LET left == IF exists /\ ~o.remove /\ ~o.rename THEN file ELSE <<>>
         IN  [raise |-> FALSE,
              path |-> IF exists THEN "load_failed" ELSE "created",
              index |-> FreshIndex,
              index_file |-> IF o.save THEN FreshIndex.rows ELSE left]

\* VectorStore._initialize_index: what leaves the body is caught, and a new
\* in-memory index is returned
InitializeIndex(file, exists, o) ==
    LET body == InitializeBody(file, exists, o)
    IN  IF body.raise THEN [body EXCEPT !.raise = FALSE, !.index = FreshIndex]
        ELSE body

InitOutcomes == [makedirs : BOOLEAN, load : BOOLEAN, remove : BOOLEAN, rename : BOOLEAN,
                 save : BOOLEAN]

\* the process starts again: VectorStore() sets up the document index from
\* the persisted one; the store keeps its documents
Restart ==
    /\ calls < MaxCalls
    /\ \E exists \in BOOLEAN, o \in InitOutcomes :
         LET r == InitializeIndex(index_file, exists, o)
         IN  /\ index_file # <<>> => exists
             /\ index' = r.index.rows
             /\ index_file' = r.index_file
             /\ last' = [NoCall EXCEPT !.op = "restart",
                                        !.index_writes = Len(r.index.rows) - Len(index),
                                        !.ret = ~r.raise,
                                        !.path = r.path,
                                        !.dimension = r.index.dimension,
                                        !.fetched_for = last.fetched_for]
             /\ faults' = (faults \/ r.path \in {"load_failed", "fallback"})
    /\ calls' = calls + 1
    /\ UNCHANGED <<store, rejected, wfVars, gradeVars, chatVars, toolVars, concVars>>

----------------------------------------------------------------------------
(* The web search of app/models/web/websearch.py *)

\* documents handed back by the cache-first lookup: the stored documents
\* tagged with the hash of the query
CachedDocs(st, q) ==
    LET hits == FindByQueryHash(st, Md5(q))
    IN  [i \in 1..Len(hits) |-> hits[i].page_content]

\* a web search that keeps a document for every candidate page
WebSearchMissKeepingAll(c, q, results, fetched, outs, provider, write) ==
    LET documents == results
    IN  IF documents = <<>>
        THEN [documents |-> documents, store |-> c.store, index |-> c.index,
              index_file |-> c.index_file]
        ELSE LET r == CacheWebResults(c, documents, q,
                                      [i \in 1..Len(documents) |-> "ok"], provider, write)
             IN  [documents |-> documents, store |-> r.store, index |-> r.index,
                  index_file |-> r.index_file]

\* web_search(state) on a cache miss, after the search-results call gave
\* `results` (one candidate page per entry) and the fetch of entry i
\* succeeded iff fetched[i]: the documents are the pages fetched, and they
\* are cached when there is at least one
WebSearchMiss(c, q, results, fetched, outs, provider, write) ==
    LET documents == SelectIdx(results, fetched, 1)
    IN  IF documents = <<>>
        THEN [documents |-> documents, store |-> c.store, index |-> c.index,
              index_file |-> c.index_file]
        ELSE LET r == CacheWebResults(c, documents, q, outs, provider, write)
             IN  [documents |-> documents, store |-> r.store, index |-> r.index,
                  index_file |-> r.index_file]

\* a web search that goes to the search-results call whatever the lookup finds
WebSearchUncached(c, q, lookup, tool, results, fetched) ==
    IF ~lookup \/ ~tool
    THEN [documents |-> <<>>, path |-> "failed", search_calls |-> IF lookup THEN 1 ELSE 0,
          fetch_calls |-> 0,
          cache |-> [store |-> c.store, index |-> c.index, index_file |-> c.index_file]]
    ELSE LET r == WebSearchMiss(c, q, results, fetched,
                                [i \in 1..Len(SelectIdx(results, fetched, 1)) |-> "ok"],
                                ProviderOk, "ok")
         IN  [documents |-> r.documents, path |-> "searched", search_calls |-> 1,
              fetch_calls |-> Len(results),
              cache |-> [store |-> r.store, index |-> r.index, index_file |-> r.index_file]]

\* web_search(state) as a function of the cache and of the outcomes of the
\* capabilities it calls: lookup is whether the cache lookup answers, tool
\* whether the search-results call answers.  search_calls and fetch_calls
\* count the calls of web_search_tool.ainvoke and of load_url
WebSearch(c, q, lookup, tool, results, fetched) ==
    LET same == [store |-> c.store, index |-> c.index, index_file |-> c.index_file]
    IN  IF ~lookup
        THEN [documents |-> <<>>, path |-> "failed", search_calls |-> 0,
              fetch_calls |-> 0, cache |-> same]
        ELSE IF CachedDocs(c.store, q) # <<>>
        THEN [documents |-> CachedDocs(c.store, q), path |-> "cached", search_calls |-> 0,
              fetch_calls |-> 0, cache |-> same]
        ELSE IF ~tool
        THEN [documents |-> <<>>, path |-> "failed", search_calls |-> 1,
              fetch_calls |-> 0, cache |-> same]
        ELSE LET r == WebSearchMiss(c, q, results, fetched,
                                    [i \in 1..Len(SelectIdx(results, fetched, 1)) |-> "ok"],
                                    ProviderOk, "ok")
             IN  [documents |-> r.documents, path |-> "searched", search_calls |-> 1,
                  fetch_calls |-> Len(results),
                  cache |-> [store |-> r.store, index |-> r.index,
                             index_file |-> r.index_file]]

MaxSearches == 3

\* what the search-results call gives: distinct pages, taken in one order
ResultPages ==
    {r \in SeqsUpTo(Contents, MaxBatch) : \A i, j \in 1..Len(r) : i < j => r[i] < r[j]}

\* effect of one web search on the cache and on the record of calls
SearchDone(q, r, fault, results, fetched) ==
    /\ store' = r.cache.store
    /\ index' = r.cache.index
    /\ index_file' = r.cache.index_file
    /\ last' = [NoCall EXCEPT !.op = "search",
                               !.docs = r.documents,
                               !.store_writes = Len(r.cache.store) - Len(store),
                               !.index_writes = Len(r.cache.index) - Len(index),
                               !.question = q,
                               !.path = r.path,
                               !.returned = r.documents,
                               !.results = results,
                               !.fetched = fetched,
                               !.search_calls = r.search_calls,
                               !.fetch_calls = r.fetch_calls,
                               !.fetched_for =
                                   IF r.path = "searched" /\ r.documents # <<>>
                                   THEN last.fetched_for \cup {q}
                                   ELSE last.fetched_for]
    /\ faults' = (faults \/ fault)
    /\ UNCHANGED rejected

\* one call of web_search(state) for a question; the outcome of a
\* capability is chosen only where the call reaches it (the store, the
\* embedding provider and the disk answer inside cache_web_results here;
\* their failures are explored by CacheInsert)
WebSearchCall ==
    /\ calls < MaxSearches
    /\ Len(index) < MaxVectors
    /\ \E q \in Questions, lookup \in BOOLEAN :
         IF ~lookup \/ CachedDocs(store, q) # <<>>
         THEN SearchDone(q, WebSearch(Cache, q, lookup, TRUE, <<>>, <<>>), ~lookup,
                         <<>>, <<>>)
         ELSE \E tool \in BOOLEAN :
                IF ~tool
                THEN SearchDone(q, WebSearch(Cache, q, TRUE, FALSE, <<>>, <<>>), TRUE,
                                <<>>, <<>>)
                ELSE \E results \in ResultPages :
                       \E fetched \in [1..Len(results) -> BOOLEAN] :
                          SearchDone(q, WebSearch(Cache, q, TRUE, TRUE, results, fetched),
                                     FALSE, results, fetched)
    /\ calls' = calls + 1
    /\ UNCHANGED <<wfVars, gradeVars, chatVars, toolVars, concVars>>

----------------------------------------------------------------------------
(* The workflow graph of app/models/RAG/control_flow.py *)

\* the keys of NewsState; a key outside of it is not a channel of the graph:
\* it is dropped from the caller's input and from what a node returns
NewsStateKeys ==
    {"question", "web_search", "documents", "generation", "context", "sources",
     "original_content", "is_relevant_ai_news", "processed", "posted_to_twitter"}

\* a merge that loses the documents an update does not name
UpdateLosingDocuments(s, u) ==
    [k \in NewsStateKeys |->
        IF k \in DOMAIN u THEN u[k] ELSE IF k = "documents" THEN <<>> ELSE s[k]]

\* the graph's merge of a node's returned update into the state: the keys
\* the update names are overwritten, the others keep their value
Update(s, u) ==
    [k \in NewsStateKeys |-> IF k \in DOMAIN u THEN u[k] ELSE s[k]]

\* the context strings the nodes build
InitialContext == [kind |-> "initial", docs |-> <<>>]
RetrievedContext(docs) == [kind |-> "retrieved", docs |-> docs]
GradedContext(docs) == [kind |-> "graded", docs |-> docs]

\* metadata.source of the stored document with content c
SourceOf(c) == <<"url", c>>

\* Python's == between a value of one type and a value of another is False
PyStr(x) == [type |-> "str", val |-> x]
PyDict(d) == [type |-> "dict", val |-> d]
PyEq(a, b) == IF a.type = b.type THEN a.val = b.val ELSE FALSE

\* what the router's LLM call can do: raise, answer something that is not
\* JSON, or answer a JSON object with some datasource
RouterOutcomes == {"throws", "malformed", "websearch", "vectorstore", "invalid"}

\* ReasoningRouter.route_query: the dict it returns
RouteQuery(out) ==
    IF out = "throws"
    THEN PyDict([datasource |-> "websearch", explanation |-> "error"])
    ELSE IF out = "malformed"
    THEN PyDict([datasource |-> "websearch", explanation |-> "parsing error"])
    ELSE IF out \notin {"websearch", "vectorstore"}
    THEN PyDict([datasource |-> "websearch", explanation |-> "given"])
    ELSE PyDict([datasource |-> out, explanation |-> "given"])

\* ThoughtProcessNodes.route_question: the update it returns.  from_agent is
\* not a key of NewsState, so state.get("from_agent") is None in the graph
\* and the router is always asked.
RouteQuestionUpdate(s, out) ==
    LET result == RouteQuery(out)
    IN  Update(s, [web_search |-> IF PyEq(result, PyStr("websearch")) THEN "Yes" ELSE "No"])

\* an edge that sends every state with original_content to generate
AfterRouteQuestionToGenerate(x) ==
    IF x.original_content # "" THEN "generate"
    ELSE IF x.web_search = "Yes" THEN "web_search_node"
    ELSE "vectorstore"

\* the conditional edge after route_question
AfterRouteQuestion(x) ==
    IF x.original_content # "" /\ x.is_relevant_ai_news THEN "process_ai_news"
    ELSE IF x.original_content # "" THEN "generate"
    ELSE IF x.web_search = "Yes" THEN "web_search_node"
    ELSE "vectorstore"

\* the conditional edge after grade_documents
AfterGradeDocuments(x) ==
    IF x.documents # <<>> THEN "generate" ELSE "web_search_node"

\* the conditional edge after analyze_ai_news
AfterAnalyzeAiNews(x) ==
    IF x.is_relevant_ai_news THEN "process_ai_news" ELSE "END"

Running == node \notin {"idle", "END", "NodeError", "GraphRecursionError"}

\* a node may run while the run has steps left
CanStep(n) == node = n /\ Len(trace) < RecursionLimit

\* the run goes on with the merged state
Step(n, s, next) ==
    /\ state' = s
    /\ trace' = Append(trace, n)
    /\ node' = next

\* grade_documents has not run.  ran: the node has returned; graded: the
\* documents it got; relevant: the documents it found relevant; asked: the
\* positions of the documents the LLM was called for; kept: the positions of
\* the documents found relevant; errored: a call of the LLM has raised;
\* others: the documents relevant by the fast path or by their own answer
NoGrade ==
    [ran |-> FALSE, graded |-> <<>>, relevant |-> <<>>, asked |-> {}, kept |-> {},
     errored |-> FALSE, others |-> <<>>]

\* a caller starts a run: graph.astream(initial_state)
StartRun ==
    /\ node = "idle"
    /\ \E q \in Questions, ws \in {"Yes", "No"}, oc \in {"", "agent_payload"},
          rel \in BOOLEAN, mr \in 0..MaxRetriesBound :
         /\ input' = [question |-> q, web_search |-> ws, original_content |-> oc,
                      is_relevant_ai_news |-> rel, max_retries |-> mr, loop_step |-> 1,
                      from_agent |-> (oc # "" /\ rel)]
         /\ state' = [question |-> q, web_search |-> ws, documents |-> <<>>,
                      generation |-> "", context |-> InitialContext, sources |-> <<>>,
                      original_content |-> oc, is_relevant_ai_news |-> rel,
                      processed |-> FALSE, posted_to_twitter |-> FALSE]
    /\ node' = "route_question"
    /\ trace' = <<>>
    /\ router_out' = "none"
    /\ grade_info' = NoGrade
    /\ generate_calls' = 0
    /\ tweet_calls' = 0
    /\ UNCHANGED <<cacheVars, callVars, concVars, gradeVars, chatVars, toolVars>>

\* node route_question
RouteQuestion ==
    /\ CanStep("route_question")
    /\ \E out \in RouterOutcomes :
         LET s == RouteQuestionUpdate(state, out)
         IN  /\ Step("route_question", s, AfterRouteQuestion(s))
             /\ router_out' = out
    /\ UNCHANGED <<input, generate_calls, tweet_calls, grade_info, cacheVars, callVars, concVars, gradeVars, chatVars, toolVars>>

\* a retriever that gives a document for every row ranked, an empty one for
\* a row without a stored document
AsRetrieverUnskipped(c, nearest) ==
    LET at(i) == {j \in 1..Len(c.store) : c.store[j].embedding_index = nearest[i] - 1}
        first(i) == CHOOSE j \in at(i) : \A k \in at(i) : j <= k
    IN  [i \in 1..Len(nearest) |->
            IF at(i) # {} THEN c.store[first(i)].page_content ELSE 0]

\* VectorStore.as_retriever: nearest[i] is the row of the index that the
\* FAISS search ranks i-th; each row is mapped to the first stored document
\* with that embedding_index, a row without a document is skipped
AsRetriever(c, nearest) ==
    LET at(i) == {j \in 1..Len(c.store) : c.store[j].embedding_index = nearest[i] - 1}
        first(i) == CHOOSE j \in at(i) : \A k \in at(i) : j <= k
        found == [i \in 1..Len(nearest) |-> at(i) # {}]
        docs == [i \in 1..Len(nearest) |->
                    IF at(i) # {} THEN c.store[first(i)].page_content ELSE 0]
    IN  SelectIdx(docs, found, 1)

\* the rankings a search for k neighbours can give over n rows
Rankings(n, k) ==
    {f \in [1..Min(n, k) -> 1..n] : \A i, j \in 1..Min(n, k) : f[i] = f[j] => i = j}

\* get_cached_results of web_cache.py: the same search; None when it finds
\* no document or when the embedding, the index or the store raises
GetCachedResults(c, nearest, fail) ==
    LET retrieved_docs == AsRetriever(c, nearest)
    IN  IF fail \/ retrieved_docs = <<>>
        THEN [none |-> TRUE, docs |-> <<>>]
        ELSE [none |-> FALSE, docs |-> retrieved_docs]

\* one similarity search over the cache as it stands, by as_retriever, which
\* raises what the embedding, the index or the store raises, or by
\* get_cached_results
RetrieverCall ==
    /\ \E nearest \in Rankings(Len(index), RetrieverK), fail \in BOOLEAN,
          by \in {"as_retriever", "get_cached_results"} :
         LET docs == IF by = "as_retriever"
                     THEN IF fail THEN <<>> ELSE AsRetriever(Cache, nearest)
                     ELSE GetCachedResults(Cache, nearest, fail).docs
         IN  last' = [NoCall EXCEPT !.op = by,
                                    !.ret = ~(fail /\ by = "as_retriever"),
                                    !.path = IF fail THEN "failed" ELSE "retrieved",
                                    !.nearest = nearest,
                                    !.returned = docs,
                                    !.fetched_for = last.fetched_for]
    /\ UNCHANGED <<cacheVars, calls, faults, rejected, wfVars, gradeVars, chatVars, toolVars, concVars>>

\* retrieve(state) of retrieval_grader.py: the documents retrieved are graded
\* one by one by the LLM; when the embedding, the store or a grading call
\* fails, the result is empty
Retrieve(c, nearest, grades, fail) ==
    LET documents == AsRetriever(c, nearest)
        filtered_docs == SelectIdx(documents, [i \in 1..Len(documents) |-> grades[i] = "yes"], 1)
    IN  IF fail
        THEN [context |-> RetrievedContext(<<>>), sources |-> <<>>, documents |-> <<>>]
        ELSE [context |-> RetrievedContext(filtered_docs),
              sources |-> [i \in 1..Len(filtered_docs) |-> SourceOf(filtered_docs[i])],
              documents |-> filtered_docs]

\* node vectorstore: ThoughtProcessNodes.vectorstore_retrieval
Vectorstore ==
    /\ CanStep("vectorstore")
    /\ \E nearest \in Rankings(Len(index), RetrieverK), fail \in BOOLEAN :
         \E grades \in [1..Len(nearest) -> {"yes", "no"}] :
            LET result == Retrieve(Cache, nearest, grades, fail)
            IN  Step("vectorstore", Update(state, result), "grade_documents")
    /\ UNCHANGED <<input, generate_calls, tweet_calls, router_out, grade_info, cacheVars, callVars, concVars, gradeVars, chatVars, toolVars>>

\* node web_search_node: ThoughtProcessNodes.web_search over web_search of
\* websearch.py, cache-first lookup first
WebSearchNode ==
    /\ CanStep("web_search_node")
    /\ \/ \* the lookup or the search-results call raises: no documents
          /\ Step("web_search_node", Update(state, [documents |-> <<>>, web_search |-> "Yes"]),
                  "grade_documents")
          /\ UNCHANGED cacheVars
       \/ \* documents tagged with the hash of the question are stored
          /\ CachedDocs(store, state.question) # <<>>
          /\ Step("web_search_node",
                  Update(state, [documents |-> CachedDocs(store, state.question),
                                 web_search |-> "Yes"]),
                  "grade_documents")
          /\ UNCHANGED cacheVars
       \/ \* cache miss: search, fetch, cache (the store, the embedding provider
          \* and the disk answer here; their failures are explored by CacheInsert)
          /\ CachedDocs(store, state.question) = <<>>
          /\ \E results \in ResultPages :
               \E fetched \in [1..Len(results) -> BOOLEAN] :
                    LET outs == [i \in 1..Len(results) |-> "ok"]
                        r == WebSearchMiss(Cache, state.question, results, fetched,
                                           outs, ProviderOk, "ok")
                    IN  /\ Step("web_search_node",
                                Update(state, [documents |-> r.documents, web_search |-> "Yes"]),
                                "grade_documents")
                        /\ store' = r.store
                        /\ index' = r.index
                        /\ index_file' = r.index_file
    /\ UNCHANGED <<input, generate_calls, tweet_calls, router_out, grade_info, callVars, concVars, gradeVars, chatVars, toolVars>>

\* a grading that asks the LLM about every document
FastPathNever(q, c) == FALSE

\* grade_documents takes the keyword fast path for document c
FastPath(q, c) == QuestionHasKeyword(q) /\ HasKeyword(c)

\* the documents grade_documents finds relevant; grades[i] is the answer of
\* the LLM for document i, asked only off the fast path
RelevantDocs(s, grades) ==
    SelectIdx(s.documents,
              [i \in 1..Len(s.documents) |->
                  FastPath(s.question, s.documents[i]) \/ grades[i] = "yes"], 1)

\* ThoughtProcessNodes.grade_documents: the state it returns
GradeDocumentsUpdate(s, grades) ==
    LET relevant_docs == RelevantDocs(s, grades)
    IN  IF s.documents = <<>> THEN s
        ELSE IF relevant_docs # <<>>
        THEN Update(s, [documents |-> relevant_docs, context |-> GradedContext(relevant_docs)])
        ELSE s

\* the positions of the documents grade_documents calls the LLM for, when no
\* call raises
AskedAt(s) == {i \in 1..Len(s.documents) : ~FastPath(s.question, s.documents[i])}

\* the positions of the documents grade_documents appends to relevant_docs
RelevantAt(s, grades) ==
    {i \in 1..Len(s.documents) :
        FastPath(s.question, s.documents[i]) \/ grades[i] = "yes"}

\* the LLM call of grade_documents raises for some document off the fast path
GradeRaises(s, grades) ==
    \E i \in 1..Len(s.documents) :
        ~FastPath(s.question, s.documents[i]) /\ grades[i] = "raise"

\* node grade_documents
GradeDocuments ==
    /\ CanStep("grade_documents")
    /\ \E grades \in [1..Len(state.documents) -> {"yes", "no", "raise"}] :
         IF GradeRaises(state, grades)
         THEN /\ Step("grade_documents", state, "NodeError")
              /\ grade_info' = [NoGrade EXCEPT !.graded = state.documents,
                                               !.errored = TRUE,
                                               !.others = RelevantDocs(state, grades)]
         ELSE LET s == GradeDocumentsUpdate(state, grades)
              IN  /\ Step("grade_documents", s, AfterGradeDocuments(s))
                  /\ grade_info' = [ran |-> TRUE, graded |-> state.documents,
                                    relevant |-> RelevantDocs(state, grades),
                                    asked |-> AskedAt(state),
                                    kept |-> RelevantAt(state, grades),
                                    errored |-> FALSE,
                                    others |-> RelevantDocs(state, grades)]
    /\ UNCHANGED <<input, generate_calls, tweet_calls, router_out, cacheVars, callVars, concVars, gradeVars, chatVars, toolVars>>

\* generate_answer: without documents the fixed refusal, else the LLM's answer
GenerateAnswer(s) == IF s.documents # <<>> THEN "answer" ELSE "refusal"

\* a generation that calls the LLM whatever the documents
GenerateCallsAlways(s) == 1

\* generate_answer: the calls of Edd.process_message, which makes one call
\* of the LLM
GenerateCalls(s) == IF s.documents # <<>> THEN 1 ELSE 0

\* node generate: the LLM is called only with documents, and its failure is
\* raised out of the node
Generate ==
    /\ CanStep("generate")
    /\ \/ Step("generate", Update(state, [generation |-> GenerateAnswer(state)]),
               "analyze_ai_news")
       \/ /\ state.documents # <<>>
          /\ Step("generate", state, "NodeError")
    /\ generate_calls' = generate_calls + GenerateCalls(state)
    /\ UNCHANGED <<input, tweet_calls, router_out, grade_info, cacheVars, callVars, concVars, gradeVars, chatVars, toolVars>>

\* node analyze_ai_news: relevant is is_relevant == "yes" of the analysis, False
\* when the analysis fails
AnalyzeAiNews ==
    /\ CanStep("analyze_ai_news")
    /\ \E relevant \in BOOLEAN :
         LET s == Update(state, [original_content |-> "generation",
                                 is_relevant_ai_news |-> relevant])
         IN  Step("analyze_ai_news", s, AfterAnalyzeAiNews(s))
    /\ UNCHANGED <<input, generate_calls, tweet_calls, router_out, grade_info, cacheVars, callVars, concVars, gradeVars, chatVars, toolVars>>

\* ThoughtProcessNodes.process_ai_news_content: the state it returns; llm is
\* whether the summary call gave a valid answer, tweet whether a tweet id
\* came back from twitter.post_tweet
ProcessAiNewsUpdate(s, llm, tweet) ==
    IF ~s.is_relevant_ai_news THEN s
    ELSE IF ~llm THEN Update(s, [processed |-> FALSE, posted_to_twitter |-> FALSE])
    ELSE Update(s, [processed |-> TRUE, posted_to_twitter |-> tweet])

\* a processing that posts its tweet twice
PostTweetCallsTwice(s, llm) == IF s.is_relevant_ai_news /\ llm THEN 2 ELSE 0

\* ThoughtProcessNodes.process_ai_news_content: its calls of
\* twitter.post_tweet, one when the content is relevant and the summary
\* call gave a valid answer, whose twitter_post is then not empty
PostTweetCalls(s, llm) == IF s.is_relevant_ai_news /\ llm THEN 1 ELSE 0

\* node process_ai_news
ProcessAiNews ==
    /\ CanStep("process_ai_news")
    /\ \E llm \in BOOLEAN, tweet \in BOOLEAN :
         /\ Step("process_ai_news", ProcessAiNewsUpdate(state, llm, tweet), "END")
         /\ tweet_calls' = tweet_calls + PostTweetCalls(state, llm)
    /\ UNCHANGED <<input, generate_calls, router_out, grade_info, cacheVars, callVars, concVars, gradeVars, chatVars, toolVars>>

\* the run has used its steps without reaching END
RecursionError ==
    /\ Running
    /\ Len(trace) >= RecursionLimit
    /\ node' = "GraphRecursionError"
    /\ UNCHANGED <<state, input, generate_calls, tweet_calls, trace, router_out, grade_info, cacheVars, callVars, concVars, gradeVars, chatVars, toolVars>>

----------------------------------------------------------------------------
(* Concurrent requests.  cache_web_results suspends at `await find_one` and
   at `await insert_one`; between two awaits the coroutine runs alone, and
   nothing in the insertion path takes a lock *)

\* the requests in flight
Procs == {"request_a", "request_b"}

IdleProc ==
    [pc |-> "idle", docs |-> <<>>, q |-> "q_plain", i |-> 1, current_index |-> 0,
     docs_to_embed |-> <<>>, written |-> 0]

NoRead == [done |-> FALSE, q |-> "q_plain", docs |-> <<>>, ntotal |-> 0, partial |-> {}]

\* where the for loop goes after document i
LoopPc(docs, i) == IF i > Len(docs) THEN "embed" ELSE "find"

\* request p enters cache_web_results: current_index is read once, before
\* the loop
Begin(p) ==
    /\ procs[p].pc = "idle"
    /\ \E docs \in SeqsUpTo(Contents, MaxBatch) \ {<<>>}, q \in Questions :
         procs' = [procs EXCEPT ![p] =
                      [pc |-> "find", docs |-> docs, q |-> q, i |-> 1,
                       current_index |-> Len(index), docs_to_embed |-> <<>>,
                       written |-> 0]]
    /\ UNCHANGED <<cacheVars, callVars, wfVars, gradeVars, chatVars, toolVars, write_log, read>>

\* the store answers find_one of request p: a stored document is skipped,
\* else the document joins docs_to_embed and insert_one is awaited
FindOne(p) ==
    LET r == procs[p]
    IN  /\ r.pc = "find"
        /\ procs' = [procs EXCEPT ![p] =
                IF FindByHash(store, Md5(r.docs[r.i])) # {}
                THEN [r EXCEPT !.i = r.i + 1, !.pc = LoopPc(r.docs, r.i + 1)]
                ELSE [r EXCEPT !.docs_to_embed = Append(r.docs_to_embed, r.docs[r.i]),
                               !.pc = "insert"]]
        /\ UNCHANGED <<cacheVars, callVars, wfVars, gradeVars, chatVars, toolVars, write_log, read>>

\* the store executes insert_one of request p
InsertOne(p) ==
    LET r == procs[p]
        doc_data == DocData(r.docs[r.i], r.q, r.current_index + Len(r.docs_to_embed) - 1)
    IN  /\ r.pc = "insert"
        /\ store' = Append(store, doc_data)
        /\ write_log' = Append(write_log, p)
        /\ procs' = [procs EXCEPT ![p] =
                [r EXCEPT !.i = r.i + 1, !.written = r.written + 1,
                          !.pc = LoopPc(r.docs, r.i + 1)]]
        /\ UNCHANGED <<index, index_file, callVars, wfVars, gradeVars, chatVars, toolVars, read>>

\* request p is past the loop: embedding, index.add and write_index run
\* without an await between them
EmbedAndAdd(p) ==
    LET r == procs[p]
        emb == EmbedQueryList(r.docs_to_embed, ProviderOk)
    IN  /\ r.pc = "embed"
        /\ procs' = [procs EXCEPT ![p] = [r EXCEPT !.pc = "done"]]
        /\ IF r.docs_to_embed = <<>> \/ emb.raise
           THEN UNCHANGED <<index, index_file, write_log>>
           ELSE /\ index' = Append(index, Vector(emb))
                /\ index_file' = Append(index, Vector(emb))
                /\ write_log' = Append(write_log, p)
        /\ UNCHANGED <<store, callVars, wfVars, gradeVars, chatVars, toolVars, read>>

\* the requests that have stored documents for question q and are not
\* through with their insertion
MidInsertion(q) ==
    {p \in Procs : procs[p].q = q /\ procs[p].written > 0 /\ procs[p].pc # "done"}

\* a further request runs the cache lookup of web_search for question q
CacheRead ==
    /\ ~read.done
    /\ \E q \in Questions :
         read' = [done |-> TRUE, q |-> q, docs |-> FindByQueryHash(store, Md5(q)),
                  ntotal |-> Len(index), partial |-> MidInsertion(q)]
    /\ UNCHANGED <<cacheVars, callVars, wfVars, gradeVars, chatVars, toolVars, procs, write_log>>

----------------------------------------------------------------------------
(* The grading of a generation: rag_main_workflow.py, hallucination_grader.py,
   answer_grader.py *)

\* state.get("loop_step", 1)
DefaultLoopStep == 1

\* what the LLM of a grader answers: a JSON object whose binary_score is
\* "yes", "no" or another string, JSON without a binary_score, text that is
\* not JSON, or an error
GraderOutcomes == {"yes", "no", "other", "no_score", "unparseable", "error"}

\* grade_hallucination: the grade parsed from the answer; the default grade
\* when the call, json.loads or the look-up of binary_score raises
GradeHallucination(outcome) ==
    IF outcome \in {"yes", "no", "other"}
    THEN [binary_score |-> outcome, explanation |-> "graded"]
    ELSE [binary_score |-> "no", explanation |-> "error"]

\* a grader that takes every answer but a parsed "no" for a "yes"
GradeAnswerTrusting(outcome) ==
    IF outcome = "no"
    THEN [binary_score |-> "no", explanation |-> "graded"]
    ELSE [binary_score |-> "yes", explanation |-> "graded"]

\* grade_answer: as grade_hallucination
GradeAnswer(outcome) ==
    IF outcome \in {"yes", "no", "other"}
    THEN [binary_score |-> outcome, explanation |-> "graded"]
    ELSE [binary_score |-> "no", explanation |-> "error"]

\* the states a grading node is called with: loop_step may be missing,
\* max_retries is read with state["max_retries"]
GradedStates ==
    [has_loop_step : {TRUE}, loop_step : 0..(MaxRetriesBound + 1),
     max_retries : 0..MaxRetriesBound, result : {"none"}, answer_grade : {"none"}]
    \cup [has_loop_step : {FALSE}, loop_step : {0},
          max_retries : 0..MaxRetriesBound, result : {"none"}, answer_grade : {"none"}]

\* loop_step = state.get("loop_step", 1)
LoopStep(s) == IF s.has_loop_step THEN s.loop_step ELSE DefaultLoopStep

\* a grounding check that gives up only past max_retries
GradeGenerationPastLimit(s, outcome) ==
    LET grade == GradeHallucination(outcome)
    IN  [grade |-> grade.binary_score,
         raise |-> FALSE,
         state |-> [s EXCEPT !.result =
                        IF grade.binary_score = "no"
                        THEN IF LoopStep(s) > s.max_retries THEN "max retries"
                             ELSE "not useful"
                        ELSE "useful"]]

\* ThoughtProcessNodes.grade_generation_v_documents_and_question: the state
\* it returns is {**state, "result": ...}; nothing is raised
GradeGeneration(s, outcome) ==
    LET grade == GradeHallucination(outcome)
    IN  [grade |-> grade.binary_score,
         raise |-> FALSE,
         state |-> [s EXCEPT !.result =
                        IF grade.binary_score = "no"
                        THEN IF LoopStep(s) >= s.max_retries THEN "max retries"
                             ELSE "not useful"
                        ELSE "useful"]]

\* ThoughtProcessNodes.grade_generated_answer: {**state, "answer_grade": grade}
GradeGeneratedAnswer(s, outcome) ==
    LET grade == GradeAnswer(outcome)
    IN  [grade |-> grade.binary_score,
         raise |-> FALSE,
         state |-> [s EXCEPT !.answer_grade = grade.binary_score]]

\* no grading node has been called on state s
NoGrading(s) ==
    [op |-> "none", outcome |-> "none", grade |-> "none", raise |-> FALSE,
     before |-> s, state |-> s]

IdleGrading == grading = NoGrading(CHOOSE s \in GradedStates : TRUE)

\* one call of the grounding node on the state the latest call has returned
GradeGenerationCall ==
    /\ \E outcome \in GraderOutcomes :
         LET r == GradeGeneration(grading.state, outcome)
         IN  grading' = [op |-> "grade_generation", outcome |-> outcome,
                         grade |-> r.grade, raise |-> r.raise,
                         before |-> grading.state, state |-> r.state]
    /\ UNCHANGED <<cacheVars, callVars, wfVars, concVars, chatVars, toolVars>>

\* one call of the answer grading node on the state the latest call has
\* returned
GradeGeneratedAnswerCall ==
    /\ \E outcome \in GraderOutcomes :
         LET r == GradeGeneratedAnswer(grading.state, outcome)
         IN  grading' = [op |-> "grade_answer", outcome |-> outcome,
                         grade |-> r.grade, raise |-> r.raise,
                         before |-> grading.state, state |-> r.state]
    /\ UNCHANGED <<cacheVars, callVars, wfVars, concVars, chatVars, toolVars>>

NextGrading ==
    \/ GradeGenerationCall
    \/ GradeGeneratedAnswerCall

----------------------------------------------------------------------------
(* The conversation buffer of app/models/memory/conversation_buffer.py and
   the chat endpoint of app/endpoints/chat.py *)

\* self.threshold
Threshold == 15

MaxAdds == 5
MaxRequests == 9

\* ConversationBuffer(): no message, no summary.  The summary is held as the
\* set of the messages it was made of
FreshBuffer == [messages |-> <<>>, message_count |-> 0, summary |-> {}]

\* an add_message that appends without counting
AddMessageUncounted(b, role, content) ==
    [b EXCEPT !.messages = Append(b.messages,
                                  [role |-> role, content |-> content,
                                   message_number |-> b.message_count + 1])]

\* ConversationBuffer.add_message: the buffer after the call.  The message is
\* appended and counted before save_state is awaited, and save_state catches
\* what the store raises
AddMessage(b, role, content) ==
    [b EXCEPT !.messages = Append(b.messages,
                                  [role |-> role, content |-> content,
                                   message_number |-> b.message_count + 1]),
              !.message_count = b.message_count + 1]

\* what add_message returns: threshold_reached, read after the save
ThresholdReached(b) == b.message_count >= Threshold

\* ConversationBuffer.clear_buffer: the buffer after the call; the summary is
\* kept
ClearBuffer(b) == [b EXCEPT !.messages = <<>>, !.message_count = 0]

\* ConversationBuffer.update_summary with the summary made of `messages`; a
\* summarizer that failed gives a text made of none of them
UpdateSummary(b, messages, ok) ==
    [b EXCEPT !.summary = IF ok THEN b.summary \cup {messages[i].content : i \in 1..Len(messages)}
                          ELSE b.summary]

\* the chat requests in flight
ChatRequests == {"chat_a", "chat_b"}

IdleRequest == [pc |-> "idle", threshold_reached |-> FALSE, messages |-> <<>>]

\* nothing has been added.  added: the number of messages added, the i-th
\* having content i; started: the requests started; summarized: the contents
\* of the messages handed to create_conversation_summary; overlapped: two
\* requests have been in flight together; save_failed: a save_state has failed
NoChat ==
    [added |-> 0, started |-> 0, summarized |-> {}, overlapped |-> FALSE,
     save_failed |-> FALSE]

IdleChat ==
    /\ conversation_buffer = FreshBuffer
    /\ chat = [p \in ChatRequests |-> IdleRequest]
    /\ chat_log = NoChat

\* a direct call of add_message; saved tells whether save_state succeeded
AddMessageCall ==
    /\ chat_log.added < MaxAdds
    /\ \E role \in {"user", "Edd"}, saved \in BOOLEAN :
         /\ conversation_buffer' = AddMessage(conversation_buffer, role, chat_log.added + 1)
         /\ chat_log' = [chat_log EXCEPT !.added = @ + 1,
                                         !.save_failed = @ \/ ~saved]
    /\ UNCHANGED <<chat, cacheVars, callVars, wfVars, concVars, gradeVars, toolVars>>

\* a direct call of clear_buffer
ClearBufferCall ==
    /\ \E saved \in BOOLEAN :
         /\ conversation_buffer' = ClearBuffer(conversation_buffer)
         /\ chat_log' = [chat_log EXCEPT !.save_failed = @ \/ ~saved]
    /\ UNCHANGED <<chat, cacheVars, callVars, wfVars, concVars, gradeVars, toolVars>>

NextBuffer ==
    \/ AddMessageCall
    \/ ClearBufferCall

\* chat_with_llm starts: the user message is appended and counted, and the
\* request waits for save_state (chat.py:55)
ChatStart(p) ==
    /\ chat[p].pc = "idle"
    /\ chat_log.started < MaxRequests
    /\ conversation_buffer' = AddMessage(conversation_buffer, "user", chat_log.added + 1)
    /\ chat' = [chat EXCEPT ![p] = [IdleRequest EXCEPT !.pc = "user_saved"]]
    /\ chat_log' = [chat_log EXCEPT
                        !.added = @ + 1,
                        !.started = @ + 1,
                        !.overlapped = @ \/ \E o \in ChatRequests \ {p} : chat[o].pc # "idle"]
    /\ UNCHANGED <<cacheVars, callVars, wfVars, concVars, gradeVars, toolVars>>

\* the save of the user message is over: add_message returns
\* threshold_reached, and the request waits for the LLM or the RAG graph
ChatUserSaved(p) ==
    /\ chat[p].pc = "user_saved"
    /\ chat' = [chat EXCEPT ![p].pc = "llm",
                            ![p].threshold_reached = ThresholdReached(conversation_buffer)]
    /\ UNCHANGED <<conversation_buffer, chat_log, cacheVars, callVars, wfVars, concVars,
                   gradeVars, toolVars>>

\* the LLM or the graph has answered: with a response, which is appended
\* (chat.py:166), with none, or with an error; the last two end the request
\* with an HTTP error (chat.py:188-198)
ChatLlm(p) ==
    /\ chat[p].pc = "llm"
    /\ \E out \in {"ok", "empty", "error"} :
         IF out = "ok"
         THEN /\ conversation_buffer' =
                    AddMessage(conversation_buffer, "Edd", chat_log.added + 1)
              /\ chat' = [chat EXCEPT ![p].pc = "edd_saved"]
              /\ chat_log' = [chat_log EXCEPT !.added = @ + 1]
         ELSE /\ chat' = [chat EXCEPT ![p] = IdleRequest]
              /\ UNCHANGED <<conversation_buffer, chat_log>>
    /\ UNCHANGED <<cacheVars, callVars, wfVars, concVars, gradeVars, toolVars>>

\* the save of the response is over: when the threshold was reached the
\* messages of the buffer are copied and handed to
\* create_conversation_summary (chat.py:172-180), else the request ends
ChatEddSaved(p) ==
    /\ chat[p].pc = "edd_saved"
    /\ IF chat[p].threshold_reached
       THEN LET messages == conversation_buffer.messages
            IN  /\ chat' = [chat EXCEPT ![p].pc = "summarize", ![p].messages = messages]
                /\ chat_log' = [chat_log EXCEPT
                                    !.summarized =
                                        @ \cup {messages[i].content : i \in 1..Len(messages)}]
       ELSE /\ chat' = [chat EXCEPT ![p] = IdleRequest]
            /\ UNCHANGED chat_log
    /\ UNCHANGED <<conversation_buffer, cacheVars, callVars, wfVars, concVars, gradeVars, toolVars>>

\* create_conversation_summary has returned, a summary or its error text:
\* update_summary stores it and waits for save_state
ChatSummarized(p) ==
    /\ chat[p].pc = "summarize"
    /\ \E ok \in BOOLEAN :
         conversation_buffer' = UpdateSummary(conversation_buffer, chat[p].messages, ok)
    /\ chat' = [chat EXCEPT ![p].pc = "clear"]
    /\ UNCHANGED <<chat_log, cacheVars, callVars, wfVars, concVars, gradeVars, toolVars>>

\* clear_buffer (chat.py:184): the buffer is emptied, whatever it holds now
ChatClear(p) ==
    /\ chat[p].pc = "clear"
    /\ conversation_buffer' = ClearBuffer(conversation_buffer)
    /\ chat' = [chat EXCEPT ![p] = IdleRequest]
    /\ UNCHANGED <<chat_log, cacheVars, callVars, wfVars, concVars, gradeVars, toolVars>>

NextChat ==
    \/ \E p \in ChatRequests : ChatStart(p)
    \/ \E p \in ChatRequests : ChatUserSaved(p)
    \/ \E p \in ChatRequests : ChatLlm(p)
    \/ \E p \in ChatRequests : ChatEddSaved(p)
    \/ \E p \in ChatRequests : ChatSummarized(p)
    \/ \E p \in ChatRequests : ChatClear(p)

----------------------------------------------------------------------------
(* The tool-calling agent of app/models/tools *)

\* the methods of class ToolNodes
ToolNodesMethods == {"select_tool", "call_email_api", "call_search_api", "format_response"}

\* the nodes tool_control_flow.py adds to the graph, each as
\* tool_nodes.<name>
ToolGraphNodes ==
    {"select_tool", "call_email_api", "call_search_api", "call_twitter_api",
     "format_response"}

\* the module-level code of tool_control_flow.py: reading an attribute that
\* ToolNodes does not have raises AttributeError, and tool_graph is not bound
BuildToolGraph ==
    IF ToolGraphNodes \subseteq ToolNodesMethods THEN "compiled" ELSE "AttributeError"

\* state.get("status_code", 0)
DefaultStatusCode == 0

\* the ToolState a caller starts with: the user message alone.  tool_response
\* is held by its kind: "dict" (a JSON object without the key error),
\* "error" (a dict with the key error), "raw" (the dict made of a body that
\* is not JSON), "list" (JSON that is no object)
NewToolState(m) ==
    [user_message |-> m, tool_name |-> "none", has_status_code |-> FALSE,
     status_code |-> DefaultStatusCode, tool_response |-> "dict", final_message |-> "",
     error |-> FALSE]

ToolMessages == {"write to bob", "hello"}

\* what the LLM of select_tool gives: an error, text that is not JSON, JSON
\* that is no object, or an object naming a tool, some other name, or none
SelectOutcomes ==
    {"error", "unparseable", "not_object", "email", "search", "twitter", "none", "other",
     "no_tool_name"}

\* ToolNodes.select_tool
SelectTool(s, out) ==
    IF out \in {"error", "unparseable", "not_object"}
    THEN [s EXCEPT !.tool_name = "none", !.error = TRUE]
    ELSE [s EXCEPT !.tool_name = IF out = "no_tool_name" THEN "none" ELSE out]

\* route_to_tool
RouteToTool(s) ==
    IF s.tool_name = "email" THEN "call_email_api"
    ELSE IF s.tool_name = "search" THEN "call_search_api"
    ELSE IF s.tool_name = "twitter" THEN "call_twitter_api"
    ELSE "format_response"

\* what the POST of a tool node gives: a response with a status and a body,
\* a timeout, a connection error or another error
ApiOutcomes ==
    [kind : {"response"}, status : {200, 202, 500}, body : {"dict", "error", "raw", "list"}]
    \cup [kind : {"timeout", "connect_error", "error"}, status : {0}, body : {"error"}]

\* ToolNodes.call_email_api and ToolNodes.call_search_api, which differ in the
\* URL, the payload and the timeout
CallApi(s, api) ==
    [s EXCEPT !.tool_response = api.body, !.status_code = api.status,
              !.has_status_code = TRUE]

\* ToolNodes.format_response: final_message by its kind: "success",
\* "accepted", "failed" (the texts with "failed (Status: ...)") or
\* "format_error" (the handler of an exception, raised by .get on a
\* tool_response that is no dict)
FormatResponse(s) ==
    LET status_code == IF s.has_status_code THEN s.status_code ELSE DefaultStatusCode
        final_message ==
            IF status_code = 200 THEN "success"
            ELSE IF status_code = 202
            THEN IF s.tool_name = "search" /\ s.tool_response = "list"
                 THEN "format_error" ELSE "accepted"
            ELSE IF s.tool_response = "list" THEN "format_error"
            ELSE "failed"
    IN  [s EXCEPT !.final_message = final_message]

\* the module is not loaded and no node has run
NoTool ==
    [graph |-> "unloaded", pc |-> "idle", state |-> NewToolState("hello"), trace |-> <<>>]

IdleTool == tool_graph = NoTool

\* tool_control_flow.py is imported
ToolImport ==
    /\ tool_graph.graph = "unloaded"
    /\ tool_graph' = [tool_graph EXCEPT !.graph = BuildToolGraph]
    /\ UNCHANGED <<cacheVars, callVars, wfVars, concVars, gradeVars, chatVars>>

\* the nodes are run on a new state in the order of the edges of
\* tool_control_flow.py, starting at the entry point
ToolStart ==
    /\ tool_graph.pc = "idle"
    /\ \E m \in ToolMessages :
         tool_graph' = [tool_graph EXCEPT !.pc = "select_tool", !.state = NewToolState(m)]
    /\ UNCHANGED <<cacheVars, callVars, wfVars, concVars, gradeVars, chatVars>>

\* node select_tool, followed by the conditional edge
SelectToolNode ==
    /\ tool_graph.pc = "select_tool"
    /\ \E out \in SelectOutcomes :
         LET s == SelectTool(tool_graph.state, out)
         IN  tool_graph' = [tool_graph EXCEPT !.state = s, !.pc = RouteToTool(s),
                                  !.trace = Append(@, "select_tool")]
    /\ UNCHANGED <<cacheVars, callVars, wfVars, concVars, gradeVars, chatVars>>

\* node call_email_api or call_search_api; a node whose method ToolNodes
\* does not have cannot run
CallApiNode ==
    /\ tool_graph.pc \in {"call_email_api", "call_search_api", "call_twitter_api"}
    /\ IF tool_graph.pc \in ToolNodesMethods
       THEN \E api \in ApiOutcomes :
              tool_graph' = [tool_graph EXCEPT !.state = CallApi(tool_graph.state, api),
                                   !.pc = "format_response",
                                   !.trace = Append(@, tool_graph.pc)]
       ELSE tool_graph' = [tool_graph EXCEPT !.pc = "AttributeError"]
    /\ UNCHANGED <<cacheVars, callVars, wfVars, concVars, gradeVars, chatVars>>

\* node format_response, followed by the edge to END
FormatResponseNode ==
    /\ tool_graph.pc = "format_response"
    /\ tool_graph' = [tool_graph EXCEPT !.state = FormatResponse(tool_graph.state), !.pc = "END",
                            !.trace = Append(@, "format_response")]
    /\ UNCHANGED <<cacheVars, callVars, wfVars, concVars, gradeVars, chatVars>>

NextTool ==
    \/ ToolImport
    \/ ToolStart
    \/ SelectToolNode
    \/ CallApiNode
    \/ FormatResponseNode

vars == <<store, index, index_file, calls, last, faults, rejected,
         node, state, input, trace, router_out, grade_info, generate_calls, tweet_calls,
         procs, write_log, read, grading, conversation_buffer, chat, chat_log,
         tool_graph>>

NextConc ==
    \/ \E p \in Procs : Begin(p)
    \/ \E p \in Procs : FindOne(p)
    \/ \E p \in Procs : InsertOne(p)
    \/ \E p \in Procs : EmbedAndAdd(p)
    \/ CacheRead

NextCache == CacheInsert

NextLife ==
    \/ WebSearchCall
    \/ ClearCall
    \/ Restart
    \/ RetrieverCall

NextSearch == WebSearchCall

\* no run has started
IdleRun ==
    /\ node = "idle"
    /\ state = [question |-> "q_plain", web_search |-> "No", documents |-> <<>>,
                generation |-> "", context |-> InitialContext, sources |-> <<>>,
                original_content |-> "", is_relevant_ai_news |-> FALSE,
                processed |-> FALSE, posted_to_twitter |-> FALSE]
    /\ input = [question |-> "q_plain", web_search |-> "No", original_content |-> "",
                is_relevant_ai_news |-> FALSE, max_retries |-> 0, loop_step |-> 1,
                from_agent |-> FALSE]
    /\ trace = <<>>
    /\ router_out = "none"
    /\ grade_info = NoGrade
    /\ generate_calls = 0
    /\ tweet_calls = 0

EmptyCache == [store |-> <<>>, index |-> <<>>, index_file |-> <<>>]

\* the caches a run can find: the empty one, or what an earlier web search
\* has left in it
SeedCaches ==
    {EmptyCache}
    \cup {CacheWebResults(EmptyCache, docs, "q_plain", [i \in 1..Len(docs) |-> "ok"],
                          ProviderOk, "ok") : docs \in {<<1>>, <<0, 1>>}}

\* no request is inside cache_web_results and nothing has been read
IdleConc ==
    /\ procs = [p \in Procs |-> IdleProc]
    /\ write_log = <<>>
    /\ read = NoRead

\* the cache is empty and no call has been made
InitCache ==
    /\ store = <<>>
    /\ index = <<>>
    /\ index_file = <<>>
    /\ calls = 0
    /\ last = NoCall
    /\ faults = FALSE
    /\ rejected = FALSE
    /\ IdleRun
    /\ IdleConc
    /\ IdleGrading
    /\ IdleChat
    /\ IdleTool

Init ==
    /\ \E c \in SeedCaches :
         /\ store = c.store
         /\ index = c.index
         /\ index_file = c.index_file
    /\ calls = 0
    /\ last = NoCall
    /\ faults = FALSE
    /\ rejected = FALSE
    /\ IdleRun
    /\ IdleConc
    /\ IdleGrading
    /\ IdleChat
    /\ IdleTool

Next ==
    \/ StartRun
    \/ RouteQuestion
    \/ Vectorstore
    \/ WebSearchNode
    \/ GradeDocuments
    \/ Generate
    \/ AnalyzeAiNews
    \/ ProcessAiNews
    \/ RecursionError

\* a run of the workflow graph
Spec == Init /\ [][Next]_vars

\* direct calls of the cache-insertion path
SpecCache == InitCache /\ [][NextCache]_vars

\* the cache is empty and no web search has run
InitSearch ==
    /\ store = <<>>
    /\ index = <<>>
    /\ index_file = <<>>
    /\ calls = 0
    /\ last = NoCall
    /\ faults = FALSE
    /\ rejected = FALSE
    /\ IdleRun
    /\ IdleConc
    /\ IdleGrading
    /\ IdleChat
    /\ IdleTool

\* web searches one after the other
SpecSearch == InitSearch /\ [][NextSearch]_vars

\* the cache is empty and the process has just started
InitLife ==
    /\ store = <<>>
    /\ index = <<>>
    /\ index_file = <<>>
    /\ calls = 0
    /\ last = NoCall
    /\ faults = FALSE
    /\ rejected = FALSE
    /\ IdleRun
    /\ IdleConc
    /\ IdleGrading
    /\ IdleChat
    /\ IdleTool

\* the life of the cache: web searches fill it, clear_documents empties it,
\* and the process starts again
SpecLife == InitLife /\ [][NextLife]_vars

\* the cache is empty and the requests are about to insert
\* a grading node is about to be called on one of the states it can get
InitGrading ==
    /\ store = <<>>
    /\ index = <<>>
    /\ index_file = <<>>
    /\ calls = 0
    /\ last = NoCall
    /\ faults = FALSE
    /\ rejected = FALSE
    /\ IdleRun
    /\ IdleConc
    /\ \E s \in GradedStates : grading = NoGrading(s)
    /\ IdleChat
    /\ IdleTool

SpecGrading == InitGrading /\ [][NextGrading]_vars

\* a new buffer, on which add_message and clear_buffer are called
InitBuffer ==
    /\ store = <<>>
    /\ index = <<>>
    /\ index_file = <<>>
    /\ calls = 0
    /\ last = NoCall
    /\ faults = FALSE
    /\ rejected = FALSE
    /\ IdleRun
    /\ IdleConc
    /\ IdleGrading
    /\ IdleChat
    /\ IdleTool

SpecBuffer == InitBuffer /\ [][NextBuffer]_vars

\* a new buffer, and chat requests that interleave at their awaits
SpecChat == InitBuffer /\ [][NextChat]_vars

\* the tool agent before tool_control_flow.py is imported
InitTool ==
    /\ store = <<>>
    /\ index = <<>>
    /\ index_file = <<>>
    /\ calls = 0
    /\ last = NoCall
    /\ faults = FALSE
    /\ rejected = FALSE
    /\ IdleRun
    /\ IdleConc
    /\ IdleGrading
    /\ IdleChat
    /\ IdleTool

SpecTool == InitTool /\ [][NextTool]_vars

InitConc ==
    /\ store = <<>>
    /\ index = <<>>
    /\ index_file = <<>>
    /\ calls = 0
    /\ last = NoCall
    /\ faults = FALSE
    /\ rejected = FALSE
    /\ IdleRun
    /\ IdleConc
    /\ IdleGrading
    /\ IdleChat
    /\ IdleTool

\* requests inserting concurrently, and a concurrent cache read
SpecConc == InitConc /\ [][NextConc]_vars

----------------------------------------------------------------------------
(* Properties of the workflow graph *)

\* the node that grades a generation for grounding
\* (ThoughtProcessNodes.grade_generation_v_documents_and_question) and the
\* node that grades the answer (ThoughtProcessNodes.grade_generated_answer)
GroundingNode == "grade_generation_v_documents_and_question"
AnswerNode == "grade_generated_answer"

\* positions of node n in the trace
Positions(n) == {i \in 1..Len(trace) : trace[i] = n}

\* the run has ended at END
Ended == node = "END"

\* the node executed right after route_question
AfterRoute == IF Len(trace) >= 2 THEN trace[2] ELSE "none"

\* number of times the run went from grade_documents to web_search_node
Escalations ==
    Cardinality({i \in 1..(Len(trace) - 1) :
                    trace[i] = "grade_documents" /\ trace[i + 1] = "web_search_node"})

\* C1: a run that executes generate and ends has executed the grounding
\* grader after its last generate, and the answer grader only after the
\* grounding grader.
C1_GroundingAfterGenerate ==
    (Ended /\ Positions("generate") # {}) =>
        /\ \E g \in Positions(GroundingNode) : \A i \in Positions("generate") : i < g
        /\ \A a \in Positions(AnswerNode) : \E g \in Positions(GroundingNode) : g < a

\* C2: with max_retries = 2 and no generation ever graded as grounded, a run
\* that ends has executed generate exactly 3 times.
C2_ThreeAttempts ==
    (Ended /\ input.max_retries = 2 /\ Positions("generate") # {}) =>
        Cardinality(Positions("generate")) = 3

\* C3: no run uses up its steps going round between grade_documents and
\* web_search_node: whatever the capabilities answer, the run is not aborted
\* short of END for want of steps.
C3_NoEndlessEscalation == node # "GraphRecursionError"

\* C4: a run executes generate at most max_retries + 1 times, and no other
\* part of the graph is gone through again and again: the escalation from
\* grade_documents to web_search_node is not repeated.
C4_OnlyRetryLoop ==
    /\ Cardinality(Positions("generate")) <= input.max_retries + 1
    /\ Escalations <= 1

\* C5: when the router's call throws or its answer is malformed or names no
\* valid datasource, the node after route_question is web_search_node (for a
\* question without supplied content).
C5_RouterFailureToWebSearch ==
    (input.original_content = "" /\ AfterRoute # "none"
        /\ router_out \in {"throws", "malformed", "invalid"}) =>
        AfterRoute = "web_search_node"

\* C6: for a question without supplied content, the node after route_question
\* is web_search_node when the router chose websearch and vectorstore when it
\* chose vectorstore.
C6_RouteFollowsRouter ==
    (input.original_content = "" /\ AfterRoute # "none") =>
        /\ router_out = "websearch" => AfterRoute = "web_search_node"
        /\ router_out = "vectorstore" => AfterRoute = "vectorstore"

\* C7: right after grade_documents has graded a non-empty set of documents,
\* the next node is generate iff some document was graded relevant, and
\* web_search_node when none was.
C7_GenerateIffRelevant ==
    (Len(trace) >= 1 /\ trace[Len(trace)] = "grade_documents"
        /\ node \in {"generate", "web_search_node"} /\ grade_info.graded # <<>>) =>
        /\ node = "generate" <=> grade_info.relevant # <<>>
        /\ grade_info.relevant = <<>> => node = "web_search_node"

\* C8: in a run, the transition from grade_documents to web_search_node is
\* taken at most once.
C8_EscalateOnce == Escalations <= 1

----------------------------------------------------------------------------
(* Properties of the cache *)

\* stored documents whose metadata.embedding_index is i
DocsAtOrdinal(i) == {j \in 1..Len(store) : store[j].embedding_index = i}

\* stored documents with the content hash of c
DocsOfContent(c) == {j \in 1..Len(store) : store[j].content_hash = Md5(c)}

\* rows of the index that embed c
VectorsOfContent(c) == {i \in 1..Len(index) : c \in Range(index[i].text)}

\* C9: after any sequence of insertions (no capability failed and every call
\* returned True), with N documents stored, every i in [0, N) is the
\* embedding_index of exactly one stored document and the index holds
\* exactly N vectors.
C9_Correspondence ==
    (~faults /\ ~rejected) =>
        /\ \A i \in 0..(Len(store) - 1) : Cardinality(DocsAtOrdinal(i)) = 1
        /\ Len(index) = Len(store)

\* C10: after the same single document was inserted by two calls in a row
\* (no capability failing), the store holds one document and the index one
\* vector for that content, and the second call wrote neither.
C10_IdempotentInsert ==
    (~faults /\ last.repeat /\ Len(last.docs) = 1) =>
        /\ Cardinality(DocsOfContent(last.docs[1])) = 1
        /\ Cardinality(VectorsOfContent(last.docs[1])) = 1
        /\ last.store_writes = 0
        /\ last.index_writes = 0

\* C14: when embedding fails (the text is empty once cleaned, or the vector
\* has not the expected length), the insertion is rejected and the store,
\* the index and the persisted index are exactly as before the call
C14_EmbeddingFailureChangesNothing ==
    [][(calls' = calls + 1 /\ last'.op = "insert" /\ last'.embed_failed)
         => (~last'.ret /\ UNCHANGED cacheVars)]_vars

\* store, in-memory index and persisted index agree on being empty
MutuallyConsistent ==
    /\ (store = <<>>) <=> (index_file = <<>>)
    /\ (store = <<>>) <=> (index = <<>>)

\* C17: when clear_documents fails or is interrupted at any of its steps,
\* store, in-memory index and persisted index stay mutually consistent (the
\* store is not empty while the persisted index holds vectors, nor the
\* reverse), also after a restart that reloads the persisted index
C17_ClearKeepsConsistency ==
    [][(/\ calls' = calls + 1
        /\ \/ last'.op = "clear"
           \/ last.op = "clear" /\ last'.op = "restart" /\ last'.path = "loaded"
        /\ MutuallyConsistent)
         => MutuallyConsistent']_vars

\* C18: when loading the persisted index fails at startup, index
\* initialization does not raise, whatever removing, renaming and re-saving
\* the file do, and gives a new empty index of the expected dimension
C18_BootstrapRecovers ==
    (last.op = "restart" /\ last.path = "load_failed")
        => (last.ret /\ index = <<>> /\ last.dimension = ExpectedDim)

\* the load of a persisted index with vectors has failed, and the file could
\* be neither removed, renamed nor saved again
C18_Witness ==
    /\ last.op = "restart"
    /\ last.path = "load_failed"
    /\ index_file # <<>>
    /\ store # <<>>
    /\ index = <<>>

----------------------------------------------------------------------------
(* Properties of the nodes *)

\* C19: whichever node's capability call fails (routing, retrieval,
\* relevance classification, generation, news analysis, tweet posting), the
\* node returns a safe default and raises nothing out of the graph
C19_NodesRaiseNothing == node # "NodeError"

\* what follows route_question in the run
FollowsRoute ==
    IF Len(trace) = 1 THEN node
    ELSE IF Len(trace) >= 2 THEN trace[2]
    ELSE "none"

C21_SourcesFollowDocuments ==
    Positions("grade_documents") # {}
        => /\ Len(state.sources) = Len(state.documents)
           /\ \A i \in 1..Len(state.documents) :
                state.sources[i] = SourceOf(state.documents[i])

\* the nodes of the graph
Nodes ==
    {"route_question", "vectorstore", "web_search_node", "grade_documents", "generate",
     "analyze_ai_news", "process_ai_news"}

\* the keys of the state a node's update names, beside the keys it hands
\* back as it got them ({**state, ...})
Named(n) ==
    CASE n = "route_question" -> {"web_search"}
      [] n = "vectorstore" -> {"context", "sources", "documents"}
      [] n = "web_search_node" -> {"documents", "web_search"}
      [] n = "grade_documents" -> {"documents", "context"}
      [] n = "generate" -> {"generation"}
      [] n = "analyze_ai_news" -> {"original_content", "is_relevant_ai_news"}
      [] n = "process_ai_news" -> {"processed", "posted_to_twitter"}

\* C22: for every node of the graph, every field of the state that the
\* update returned by the node does not name has after the node the value it
\* had before it
C22_UnnamedFieldsKept ==
    [][\A n \in Nodes :
          trace' = Append(trace, n)
            => \A k \in NewsStateKeys \ Named(n) : state'[k] = state[k]]_vars

\* generate has run on documents and has left them in the state
C22_Witness ==
    /\ trace # <<>>
    /\ trace[Len(trace)] = "generate"
    /\ state.generation = "answer"
    /\ state.documents # <<>>
    /\ state.sources # <<>>

\* C26: in the grading of relevance, a document whose call of the LLM
\* errors is taken as not relevant, and the other documents of the set keep
\* their verdicts: the node returns, and the relevant documents are those of
\* the fast path and of the answers "yes"
C26_ErroredDocumentIsNotRelevant ==
    grade_info.errored
        => /\ grade_info.ran
           /\ grade_info.relevant = grade_info.others

\* C27: in grade_documents, a document is marked relevant with no call of
\* the LLM whenever the question has a domain keyword and the content of the
\* document has one; the LLM is called for a document only when that
\* condition does not hold
C27_KeywordFastPath ==
    grade_info.ran
        => \A i \in 1..Len(grade_info.graded) :
              LET both == /\ QuestionHasKeyword(state.question)
                          /\ HasKeyword(grade_info.graded[i])
              IN  /\ both => (i \in grade_info.kept /\ i \notin grade_info.asked)
                  /\ i \in grade_info.asked => ~both

\* grade_documents has graded, for a question with a keyword, a document
\* with a keyword and one without, and has asked the LLM about the second
C27_Witness ==
    /\ grade_info.ran
    /\ QuestionHasKeyword(state.question)
    /\ \E i, j \in 1..Len(grade_info.graded) :
         /\ HasKeyword(grade_info.graded[i])
         /\ i \in grade_info.kept
         /\ i \notin grade_info.asked
         /\ ~HasKeyword(grade_info.graded[j])
         /\ j \in grade_info.asked

\* C28: generate without documents returns the fixed refusal and makes no
\* call of the generation capability; with documents it makes exactly one
C28_GenerateCallsOnce ==
    [][trace' = Append(trace, "generate")
         => IF state.documents = <<>>
            THEN /\ generate_calls' = generate_calls
                 /\ state'.generation = "refusal"
            ELSE generate_calls' = generate_calls + 1]_vars

\* generate has run without documents: the refusal, and no call
C28_Witness ==
    /\ trace # <<>>
    /\ trace[Len(trace)] = "generate"
    /\ state.documents = <<>>
    /\ state.generation = "refusal"
    /\ generate_calls = 0

\* the contents of the messages in the buffer
Buffered == {conversation_buffer.messages[i].content :
                i \in 1..Len(conversation_buffer.messages)}

\* C34: with two chat requests interleaved at their awaits, every message
\* added to the conversation buffer is still in the buffer or was in the
\* list of messages handed to the summarizer: clear_buffer discards no
\* message that was not summarized
C34_ClearDiscardsOnlySummarized ==
    \A content \in 1..chat_log.added :
        content \in Buffered \/ content \in chat_log.summarized

\* C35: after any sequence of chat requests, those whose LLM call fails
\* included, message_count does not exceed threshold + 1
C35_CountStaysWithinThreshold ==
    ~chat_log.overlapped => conversation_buffer.message_count <= Threshold + 1

\* C36: after any sequence of calls of add_message and clear_buffer on a new
\* buffer, calls whose save fails included, message_count is the number of
\* messages in the buffer and their message_number values are
\* 1..message_count in order
C36_CountAndNumbersAgree ==
    /\ conversation_buffer.message_count = Len(conversation_buffer.messages)
    /\ \A i \in 1..Len(conversation_buffer.messages) :
         conversation_buffer.messages[i].message_number = i

\* messages have been added after a clear, with a save that failed
C36_Witness ==
    /\ chat_log.save_failed
    /\ Len(conversation_buffer.messages) >= 2
    /\ conversation_buffer.messages[1].content > 1
    /\ conversation_buffer.messages[2].message_number = 2

\* the tool-call nodes that have run
ToolCalls ==
    {i \in 1..Len(tool_graph.trace) : tool_graph.trace[i] \notin {"select_tool", "format_response"}}

\* C37: every run of the tool graph ends, whatever the selection of the
\* tool and the call of its API give: the graph is built, no node is missing,
\* and a run that has ended has run select_tool first, at most one tool-call
\* node, and format_response once and last, which has set final_message
C37_ToolRunEnds ==
    /\ tool_graph.graph # "AttributeError"
    /\ tool_graph.pc # "AttributeError"
    /\ tool_graph.pc = "END"
         => /\ tool_graph.trace[1] = "select_tool"
            /\ tool_graph.trace[Len(tool_graph.trace)] = "format_response"
            /\ Cardinality({i \in 1..Len(tool_graph.trace) : tool_graph.trace[i] = "format_response"}) = 1
            /\ Cardinality(ToolCalls) <= 1
            /\ tool_graph.state.final_message # ""

\* C38: when select_tool selects no tool (tool_name "none", so that no tool
\* API is called), the final_message of format_response does not report a
\* failed tool call
C38_NoToolNoFailure ==
    (tool_graph.pc = "END" /\ tool_graph.state.tool_name = "none" /\ ToolCalls = {})
        => tool_graph.state.final_message # "failed"

\* C32: when a run starts with web_search = "Yes" and no original_content
\* (the daily AI news request), the node executed after route_question is
\* web_search_node: the web search the caller asks for is not turned into a
\* look-up of the cache
C32_RequestedWebSearchIsKept ==
    (/\ input.web_search = "Yes"
     /\ input.original_content = ""
     /\ Len(trace) >= 2
     /\ trace[1] = "route_question")
        => trace[2] = "web_search_node"

\* C33: in a run of the graph process_ai_news executes at most once and
\* twitter.post_tweet is called at most once, by that node only, and not at
\* all when the node is reached with is_relevant_ai_news false
C33_OneTweetAtMost ==
    [][/\ trace' = Append(trace, "process_ai_news")
            => /\ Positions("process_ai_news") = {}
               /\ tweet_calls' <= 1
               /\ ~state.is_relevant_ai_news => tweet_calls' = tweet_calls
       /\ tweet_calls' # tweet_calls
            => trace' = Append(trace, "process_ai_news")]_vars

\* a run has gone through analyze_ai_news to process_ai_news and has posted
\* its one tweet
C33_Witness ==
    /\ node = "END"
    /\ Positions("analyze_ai_news") # {}
    /\ Positions("process_ai_news") # {}
    /\ tweet_calls = 1
    /\ state.posted_to_twitter

\* C31: after any sequence of insertions, clears and recoveries of the index
\* at a start of the process (an unreadable index file replaced by a new
\* empty index while the store keeps its documents), no two stored documents
\* have the same metadata.embedding_index
C31_OrdinalsAreDistinct ==
    \A i, j \in 1..Len(store) :
        i # j => store[i].embedding_index # store[j].embedding_index

C30_MissReturnsFetchedPages ==
    (last.op = "search" /\ last.search_calls = 1)
        => LET ok == {i \in 1..Len(last.results) : last.fetched[i]}
           IN  /\ last.ret
               /\ Len(last.returned) = Cardinality(ok)
               /\ \A i \in ok :
                    last.returned[Cardinality({j \in ok : j <= i})] = last.results[i]
               /\ last.path = "failed" => last.returned = <<>>

\* a web search on a cache miss has got two candidate pages, and the fetch
\* of the first has failed
C30_Witness ==
    /\ last.op = "search"
    /\ last.path = "searched"
    /\ Len(last.results) = 2
    /\ ~last.fetched[1]
    /\ last.fetched[2]
    /\ last.returned = <<last.results[2]>>

----------------------------------------------------------------------------
(* Properties of the grading of a generation *)

\* C23: when the grounding grade is "no" and loop_step < max_retries, the
\* grounding node sends the run back to generate with loop_step increased by
\* exactly one; loop_step never decreases
C23_RetryCountsUp ==
    /\ (/\ grading.op = "grade_generation"
        /\ grading.grade = "no"
        /\ LoopStep(grading.before) < grading.before.max_retries)
         => /\ grading.state.result = "not useful"
            /\ LoopStep(grading.state) = LoopStep(grading.before) + 1
    /\ LoopStep(grading.state) >= LoopStep(grading.before)

\* C24: the grounding node sets the result "max retries" exactly when the
\* grade is "no" and loop_step >= max_retries, and returns it without
\* raising; a grounded grade never gives "max retries"
C24_MaxRetriesOutcome ==
    grading.op = "grade_generation"
        => /\ ~grading.raise
           /\ (grading.state.result = "max retries")
                <=> (/\ grading.grade = "no"
                     /\ LoopStep(grading.before) >= grading.before.max_retries)

\* the grounding node has given up on a generation that is not grounded,
\* with loop_step equal to max_retries
C24_Witness ==
    /\ grading.op = "grade_generation"
    /\ grading.outcome = "no"
    /\ grading.before.has_loop_step
    /\ grading.before.loop_step = grading.before.max_retries
    /\ grading.state.result = "max retries"

\* C25: when the call of the grounding grader or of the answer grader fails
\* or its output cannot be parsed, the grade is binary_score "no" and the
\* grading node returns normally
C25_GraderFailureIsNo ==
    (grading.op # "none" /\ grading.outcome \in {"error", "unparseable"})
        => /\ ~grading.raise
           /\ grading.grade = "no"
           /\ grading.op = "grade_generation"
                => grading.state.result \in {"not useful", "max retries"}
           /\ grading.op = "grade_answer" => grading.state.answer_grade = "no"

\* the answer grader's output could not be parsed, after a grounding check
\* that found the generation grounded
C25_Witness ==
    /\ grading.op = "grade_answer"
    /\ grading.outcome = "unparseable"
    /\ grading.state.answer_grade = "no"
    /\ grading.state.result = "useful"

----------------------------------------------------------------------------
(* Properties of the web search *)

\* the stored documents tagged with the hash of question q
TaggedWith(q) == {i \in 1..Len(store) : store[i].query_hash = Md5(q)}

\* C15: when the store holds a document tagged with the hash of the
\* question, the web search returns exactly the stored documents tagged with
\* it, calls neither the search-results capability nor the page fetch, and
\* leaves the store and the index as they are
C15_CacheFirst ==
    [][(calls' = calls + 1 /\ last'.op = "search" /\ last'.path # "failed"
          /\ TaggedWith(last'.question) # {})
         => /\ Len(last'.returned) = Cardinality(TaggedWith(last'.question))
            /\ \A i \in 1..Len(last'.returned) :
                 \E j \in TaggedWith(last'.question) :
                    /\ store[j].page_content = last'.returned[i]
                    /\ Cardinality({k \in TaggedWith(last'.question) : k <= j}) = i
            /\ last'.search_calls = 0
            /\ last'.fetch_calls = 0
            /\ UNCHANGED cacheVars]_vars

\* a web search found documents of its question in the store and returned them
C15_Witness ==
    /\ last.op = "search"
    /\ last.path = "cached"
    /\ last.returned # <<>>
    /\ last.fetch_calls = 0

\* C16: once a web search on a cache miss has fetched a page and completed,
\* every later web search for the same question takes the cache-first path
\* and fetches nothing, whatever was searched in between
C16_SecondSearchHitsCache ==
    [][(calls' = calls + 1 /\ last'.op = "search" /\ last'.path # "failed"
          /\ last'.question \in last.fetched_for)
         => (last'.path = "cached" /\ last'.fetch_calls = 0)]_vars

----------------------------------------------------------------------------
(* Properties of concurrent requests *)

\* C11: when two requests insert into the cache concurrently, no two stored
\* documents get the same embedding_index, and the store and index writes of
\* one insertion are not interleaved with those of the other
C11_InsertionsSerialised ==
    /\ \A i, j \in 1..Len(store) :
         i # j => store[i].embedding_index # store[j].embedding_index
    /\ \A i, j, k \in 1..Len(write_log) :
         (i < j /\ j < k /\ write_log[i] = write_log[k]) => write_log[j] = write_log[i]

\* C12: the store holds at most one document per content hash, also when
\* two requests insert the same content concurrently
C12_OneDocumentPerHash ==
    \A i, j \in 1..Len(store) :
        store[i].content_hash = store[j].content_hash => i = j

\* C13: a cache read concurrent with an insertion observes none or all of
\* the insertion's effect: it does not run while a request has stored only
\* part of its effect, and sees no stored document whose vector is not in
\* the index
C13_ReadSeesNoneOrAll ==
    read.done =>
        /\ read.partial = {}
        /\ \A i \in 1..Len(read.docs) : read.docs[i].embedding_index < read.ntotal

====
